---- MODULE Spec2Model ----
(***************************************************************************)
(* Request handlers of the speech-writer backend (src/src/actions/index.ts)  *)
(* over the two tables of src/db/tables.ts.                                  *)
(*                                                                           *)
(* Every `await db...` of a handler is one atomic persistence statement and  *)
(* one action of the model; a handler is suspended between two statements,   *)
(* so statements of different requests interleave.  The input schema of an   *)
(* action is parsed before its handler is entered (defineAction), and        *)
(* requireUser runs synchronously at the top of every handler.               *)
(*                                                                           *)
(* JavaScript objects are functions over their present keys: a key that is   *)
(* `undefined` in an input, or NULL in a row, is absent from the DOMAIN.     *)
(***************************************************************************)
EXTENDS Integers, Sequences, FiniteSets, TLC

\* ---------------------------------------------------------------- bounds
\* requests accepted in one behaviour (each arrival advances the clock)
MaxCalls == 2

\* ---------------------------------------------------------------- domains
Procs == {"p1", "p2"}
Users == {"u1", "u2"}
Ops == {"createSpeech", "updateSpeech", "listSpeeches", "createSpeechVersion",
        "updateSpeechVersion", "deleteSpeechVersion", "listSpeechVersions"}

\* the object with no key
Empty == <<>>

\* { [f]: o[f] } when the key is present, {} otherwise
Field(o, f) == IF f \in DOMAIN o THEN f :> o[f] ELSE Empty

\* the n-th identifier of crypto.randomUUID(): never the empty string, never repeated
randomUUID(n) == "id" \o ToString(n)

VARIABLES
  Speeches,         \* rows of table Speeches, in storage order
  SpeechVersions,   \* rows of table SpeechVersions, in storage order
  uuids,            \* identifiers handed out so far
  clock,            \* what new Date() returns; advanced by every arriving request
  calls,            \* requests accepted so far
  deleted,          \* version ids whose delete statement reported rowsAffected > 0
  pc,               \* per request slot: the statement the handler is suspended at
  op,               \* per request slot: the action called
  locals,           \* per request slot: context.locals
  input,            \* per request slot: the input object of the call
  now,              \* per request slot: createSpeech's `const now`
  result,           \* per request slot: what the call returned or threw
  stmts             \* per request slot: persistence statements executed by the call

vars == <<Speeches, SpeechVersions, uuids, clock, calls, deleted, pc, op, locals, input, now, result, stmts>>
tables == <<Speeches, SpeechVersions>>

\* ---------------------------------------------------------------- results
ActionError(code, message) == [error |-> [code |-> code, message |-> message]]
\* what defineAction throws when the input schema rejects the input
ActionInputError == [error |-> [code |-> "BAD_REQUEST", type |-> "AstroActionInputError"]]
Unauthorized == ActionError("UNAUTHORIZED", "You must be signed in to perform this action.")
SpeechNotFound == ActionError("NOT_FOUND", "Speech not found.")
VersionNotFound == ActionError("NOT_FOUND", "Speech version not found.")

IsError(r) == "error" \in DOMAIN r
IsSuccess(r) == "success" \in DOMAIN r
Code(r) == IF IsError(r) THEN r.error.code ELSE "OK"

\* const [row] = rows; { key: row }   (row is undefined when rows is empty)
First(key, rows) == IF Len(rows) > 0 THEN key :> rows[1] ELSE Empty

\* ---------------------------------------------------------------- input schemas
\* z.string().min(n)
string(o, f, min) == f \in DOMAIN o /\ Len(o[f]) >= min
\* z.string().min(n).optional()
optional(o, f, min) == f \notin DOMAIN o \/ Len(o[f]) >= min

createSpeech_input(i) ==
  /\ string(i, "title", 1)
  /\ optional(i, "occasion", 0)
  /\ optional(i, "audience", 0)
  /\ optional(i, "language", 0)
  /\ optional(i, "notes", 0)
\* a schema without the refinement
updateSpeech_unrefined(i) == TRUE


updateSpeech_refine(i) ==
  \/ "title" \in DOMAIN i
  \/ "occasion" \in DOMAIN i
  \/ "audience" \in DOMAIN i
  \/ "language" \in DOMAIN i
  \/ "notes" \in DOMAIN i

updateSpeech_input(i) ==
  /\ string(i, "id", 1)
  /\ optional(i, "title", 1)
  /\ optional(i, "occasion", 0)
  /\ optional(i, "audience", 0)
  /\ optional(i, "language", 0)
  /\ optional(i, "notes", 0)
  /\ updateSpeech_refine(i)

listSpeeches_input(i) == TRUE

\* targetDurationMinutes (z.number().optional()) and isPreferred (z.boolean().optional())
\* are a number and a boolean in every input explored, so they constrain nothing here.
createSpeechVersion_input(i) ==
  /\ string(i, "speechId", 1)
  /\ optional(i, "versionLabel", 0)
  /\ optional(i, "tone", 0)
  /\ string(i, "scriptText", 1)

updateSpeechVersion_refine(i) ==
  \/ "versionLabel" \in DOMAIN i
  \/ "tone" \in DOMAIN i
  \/ "targetDurationMinutes" \in DOMAIN i
  \/ "scriptText" \in DOMAIN i
  \/ "isPreferred" \in DOMAIN i

updateSpeechVersion_input(i) ==
  /\ string(i, "id", 1)
  /\ string(i, "speechId", 1)
  /\ optional(i, "versionLabel", 0)
  /\ optional(i, "tone", 0)
  /\ optional(i, "scriptText", 0)
  /\ updateSpeechVersion_refine(i)

deleteSpeechVersion_input(i) ==
  /\ string(i, "id", 1)
  /\ string(i, "speechId", 1)

listSpeechVersions_input(i) ==
  /\ string(i, "speechId", 1)

\* does the input schema of the action accept the input
Accepts(o, i) ==
  CASE o = "createSpeech" -> createSpeech_input(i)
    [] o = "updateSpeech" -> updateSpeech_input(i)
    [] o = "listSpeeches" -> listSpeeches_input(i)
    [] o = "createSpeechVersion" -> createSpeechVersion_input(i)
    [] o = "updateSpeechVersion" -> updateSpeechVersion_input(i)
    [] o = "deleteSpeechVersion" -> deleteSpeechVersion_input(i)
    [] o = "listSpeechVersions" -> listSpeechVersions_input(i)

\* the parsed input the handler receives: preferredOnly is z.boolean().default(false)
Parsed(o, i) ==
  IF o = "listSpeechVersions" THEN i @@ [preferredOnly |-> FALSE] ELSE i

\* ---------------------------------------------------------------- rows
createSpeech_values(i, user, id, at) ==
  [id |-> id, userId |-> user.id, title |-> i.title, createdAt |-> at, updatedAt |-> at]
    @@ Field(i, "occasion") @@ Field(i, "audience") @@ Field(i, "language") @@ Field(i, "notes")

createSpeechVersion_values(i, id, at) ==
  [id |-> id, speechId |-> i.speechId, scriptText |-> i.scriptText,
   isPreferred |-> IF "isPreferred" \in DOMAIN i THEN i.isPreferred ELSE FALSE,
   createdAt |-> at]
    @@ Field(i, "versionLabel") @@ Field(i, "tone") @@ Field(i, "targetDurationMinutes")

\* ---------------------------------------------------------------- initial state
\* The database outlives the server.  It is empty, or it is what four earlier calls
\* left: u1 and u2 each created a speech, and each added a version to their own.
SeedSpeeches ==
  << createSpeech_values([title |-> "a"], [id |-> "u1"], randomUUID(1), 1),
     createSpeech_values([title |-> "a", occasion |-> "t"], [id |-> "u2"], randomUUID(2), 2) >>

SeedSpeechVersions ==
  << createSpeechVersion_values([speechId |-> randomUUID(1), scriptText |-> "x"],
                                randomUUID(3), 3),
     createSpeechVersion_values([speechId |-> randomUUID(2), scriptText |-> "x",
                                 isPreferred |-> TRUE], randomUUID(4), 4) >>

Init ==
  /\ \/ Speeches = <<>> /\ SpeechVersions = <<>> /\ uuids = 0 /\ clock = 0
     \/ Speeches = SeedSpeeches /\ SpeechVersions = SeedSpeechVersions /\ uuids = 4 /\ clock = 4
  /\ calls = 0
  /\ deleted = {}
  /\ pc = [p \in Procs |-> "idle"]
  /\ op = [p \in Procs |-> "none"]
  /\ locals = [p \in Procs |-> Empty]
  /\ input = [p \in Procs |-> Empty]
  /\ now = [p \in Procs |-> 0]
  /\ result = [p \in Procs |-> Empty]
  /\ stmts = [p \in Procs |-> 0]

\* ---------------------------------------------------------------- inputs explored
\* identifiers handed out so far
Issued == {randomUUID(n) : n \in 1..uuids}
\* the identifier handed out next: no row has it yet
Unissued == randomUUID(uuids + 1)
SpeechIds == {Speeches[k].id : k \in 1..Len(Speeches)}

\* The families of inputs: "any" holds inputs the schemas reject and identifiers of
\* no row too, "valid" only inputs the schemas accept, naming rows that exist or existed.
ValuesIn(family, o, f) ==
  CASE f = "speechId" \/ (f = "id" /\ o = "updateSpeech") ->
         SpeechIds \cup (IF family = "any" THEN {"", Unissued} ELSE {})
    [] f = "id" ->
         (Issued \ SpeechIds) \cup (IF family = "any" THEN {""} ELSE {})
    [] f = "title" ->
         (IF o = "createSpeech" THEN {"a"} ELSE {"b"}) \cup (IF family = "any" THEN {""} ELSE {})
    [] f = "scriptText" ->
         IF o = "createSpeechVersion"
         THEN {"x"} \cup (IF family = "any" THEN {""} ELSE {})
         ELSE {"y"}
    [] f \in {"occasion", "audience", "language", "notes", "versionLabel", "tone"} -> {"t"}
    [] f = "targetDurationMinutes" -> {5}
    [] f = "isPreferred" ->
         IF o = "createSpeechVersion" /\ family = "valid" THEN {TRUE} ELSE BOOLEAN
    [] f = "preferredOnly" -> BOOLEAN

\* the objects whose keys are exactly D
RECURSIVE Objects(_, _, _)
Objects(family, o, D) ==
  IF D = {} THEN {Empty}
  ELSE LET f == CHOOSE g \in D : TRUE
       IN  {(f :> v) @@ obj : v \in ValuesIn(family, o, f), obj \in Objects(family, o, D \ {f})}

\* which optional keys an input supplies: none, any one, or (family "any") all of them
Supplied(family, opt) ==
  {{}} \cup {{f} : f \in opt} \cup (IF family = "any" THEN {opt} ELSE {})

InputsWith(family, o, req, opt) ==
  UNION {Objects(family, o, req \cup O) : O \in Supplied(family, opt)}

InputsOf(family, o) ==
  CASE o = "createSpeech" ->
         InputsWith(family, o, {"title"},
                    IF family = "any" THEN {"occasion", "audience", "language", "notes"}
                    ELSE {})
    [] o = "updateSpeech" ->
         InputsWith(family, o, {"id"},
                    IF family = "any" THEN {"title", "occasion", "audience", "language", "notes"}
                    ELSE {"title", "notes"})
    [] o = "listSpeeches" -> {Empty}
    [] o = "createSpeechVersion" ->
         InputsWith(family, o, {"speechId", "scriptText"},
                    IF family = "any"
                    THEN {"versionLabel", "tone", "targetDurationMinutes", "isPreferred"}
                    ELSE {"isPreferred"})
    [] o = "updateSpeechVersion" ->
         InputsWith(family, o, {"id", "speechId"},
                    IF family = "any"
                    THEN {"versionLabel", "tone", "targetDurationMinutes", "scriptText",
                          "isPreferred"}
                    ELSE {"scriptText", "isPreferred"})
    [] o = "deleteSpeechVersion" -> InputsWith(family, o, {"id", "speechId"}, {})
    [] o = "listSpeechVersions" -> InputsWith(family, o, {"speechId"}, {"preferredOnly"})

InputsIn(family, o) ==
  IF family = "any" THEN InputsOf(family, o) ELSE {i \in InputsOf(family, o) : Accepts(o, i)}

\* context.locals: with a signed-in user, or without
LocalsIn == {Empty} \cup {[user |-> [id |-> u]] : u \in Users}

\* ---------------------------------------------------------------- requireUser
\* a handler that does not look at context.locals
requireUser_skipped(l) == TRUE


requireUser(l) == "user" \in DOMAIN l

\* the statement a handler awaits first, once requireUser has returned
FirstStatement(o) ==
  CASE o = "createSpeech" -> "insert"
    [] o = "listSpeeches" -> "select"
    [] OTHER -> "getOwnedSpeech"

\* A request arrives: defineAction parses the input, then the handler runs up to its
\* first await.
Enter(p, o, family) ==
  /\ pc[p] = "idle"
  /\ calls < MaxCalls
  /\ \E l \in LocalsIn, i \in InputsIn(family, o) :
       /\ calls' = calls + 1
       /\ clock' = clock + 1
       /\ op' = [op EXCEPT ![p] = o]
       /\ locals' = [locals EXCEPT ![p] = l]
       /\ stmts' = [stmts EXCEPT ![p] = 0]
       /\ IF ~Accepts(o, i)
          THEN /\ input' = [input EXCEPT ![p] = i]
               /\ pc' = [pc EXCEPT ![p] = "done"]
               /\ result' = [result EXCEPT ![p] = ActionInputError]
               /\ now' = now
          ELSE /\ input' = [input EXCEPT ![p] = Parsed(o, i)]
               /\ IF ~requireUser(l)
                  THEN /\ pc' = [pc EXCEPT ![p] = "done"]
                       /\ result' = [result EXCEPT ![p] = Unauthorized]
                       /\ now' = now
                  ELSE /\ pc' = [pc EXCEPT ![p] = FirstStatement(o)]
                       /\ result' = [result EXCEPT ![p] = Empty]
                       /\ now' = [now EXCEPT ![p] = IF o = "createSpeech" THEN clock' ELSE 0]
  /\ UNCHANGED <<Speeches, SpeechVersions, uuids, deleted>>

\* the request has executed one more statement and is suspended at `next`
Goto(p, next) ==
  /\ pc' = [pc EXCEPT ![p] = next]
  /\ stmts' = [stmts EXCEPT ![p] = @ + 1]
  /\ UNCHANGED <<calls, clock, deleted, op, locals, input, now, result>>

\* the request has executed one more statement and ends with r
Return(p, r) ==
  /\ pc' = [pc EXCEPT ![p] = "done"]
  /\ stmts' = [stmts EXCEPT ![p] = @ + 1]
  /\ result' = [result EXCEPT ![p] = r]
  /\ UNCHANGED <<calls, clock, op, locals, input, now>>

Finish(p, r) == Return(p, r) /\ UNCHANGED deleted

Success(data) == [success |-> TRUE, data |-> data]

\* ---------------------------------------------------------------- createSpeech
createSpeech(p, family) ==
  /\ Enter(p, "createSpeech", family)
  /\ op'[p] = "createSpeech"

createSpeech_insert(p) ==
  /\ pc[p] = "insert" /\ op[p] = "createSpeech"
  /\ LET speech == createSpeech_values(input[p], locals[p].user, randomUUID(uuids + 1), now[p])
     IN  /\ Speeches' = Append(Speeches, speech)
         /\ uuids' = uuids + 1
         /\ Finish(p, Success([speech |-> speech]))
  /\ UNCHANGED SpeechVersions


\* ---------------------------------------------------------------- ownership guard
\* the guard without the owner: eq(Speeches.id, speechId) alone
getOwnedSpeech_anyOwner(r, speechId, userId) == r.id = speechId

\* and(eq(Speeches.id, speechId), eq(Speeches.userId, userId))
getOwnedSpeech_where(r, speechId, userId) == r.id = speechId /\ r.userId = userId

\* the guard without the parent: eq(SpeechVersions.id, versionId) alone
getOwnedSpeechVersion_anyParent(r, versionId, speechId) == r.id = versionId

\* and(eq(SpeechVersions.id, versionId), eq(SpeechVersions.speechId, speechId))
getOwnedSpeechVersion_where(r, versionId, speechId) == r.id = versionId /\ r.speechId = speechId

\* the speech id a handler hands to the guard: input.id in updateSpeech, input.speechId elsewhere
GuardedSpeechId(o, i) == IF o = "updateSpeech" THEN i.id ELSE i.speechId

\* the rows getOwnedSpeech's select returns
OwnedSpeechRows(speechId, userId) ==
  LET Test(r) == getOwnedSpeech_where(r, speechId, userId) IN SelectSeq(Speeches, Test)

\* the rows getOwnedSpeechVersion's own select returns
OwnedVersionRows(versionId, speechId) ==
  LET Test(r) == getOwnedSpeechVersion_where(r, versionId, speechId)
  IN  SelectSeq(SpeechVersions, Test)

\* the statement a handler goes on to once getOwnedSpeech has returned
AfterGuard(o) ==
  CASE o = "updateSpeech" -> "update"
    [] o = "createSpeechVersion" -> "insert"
    [] o = "listSpeechVersions" -> "select"
    [] OTHER -> "getOwnedSpeechVersion"

getOwnedSpeech(p) ==
  /\ pc[p] = "getOwnedSpeech"
  /\ IF Len(OwnedSpeechRows(GuardedSpeechId(op[p], input[p]), locals[p].user.id)) = 0
     THEN Finish(p, SpeechNotFound)
     ELSE Goto(p, AfterGuard(op[p]))
  /\ UNCHANGED <<Speeches, SpeechVersions, uuids>>

getOwnedSpeechVersion(p) ==
  /\ pc[p] = "getOwnedSpeechVersion"
  /\ IF Len(OwnedVersionRows(input[p].id, input[p].speechId)) = 0
     THEN Finish(p, VersionNotFound)
     ELSE Goto(p, IF op[p] = "updateSpeechVersion" THEN "update" ELSE "delete")
  /\ UNCHANGED <<Speeches, SpeechVersions, uuids>>

\* ---------------------------------------------------------------- updateSpeech
updateSpeech(p, family) ==
  /\ Enter(p, "updateSpeech", family)
  /\ op'[p] = "updateSpeech"
\* a full replace: every mutable column is written, the empty string where the input has none
updateSpeech_replace(i, at) ==
  [f \in {"title", "occasion", "audience", "language", "notes"} |->
     IF f \in DOMAIN i THEN i[f] ELSE ""] @@ [updatedAt |-> at]


updateSpeech_set(i, at) ==
  Field(i, "title") @@ Field(i, "occasion") @@ Field(i, "audience") @@ Field(i, "language")
    @@ Field(i, "notes") @@ [updatedAt |-> at]

\* eq(Speeches.id, input.id)
updateSpeech_where(r, i) == r.id = i.id

updateSpeech_update(p) ==
  /\ pc[p] = "update" /\ op[p] = "updateSpeech"
  /\ LET set == updateSpeech_set(input[p], clock)
         Test(r) == updateSpeech_where(r, input[p])
     IN  /\ Speeches' = [k \in 1..Len(Speeches) |->
                           IF Test(Speeches[k]) THEN set @@ Speeches[k] ELSE Speeches[k]]
         /\ Finish(p, Success(First("speech", SelectSeq(Speeches', Test))))
  /\ UNCHANGED <<SpeechVersions, uuids>>

\* ---------------------------------------------------------------- listSpeeches
listSpeeches(p, family) ==
  /\ Enter(p, "listSpeeches", family)
  /\ op'[p] = "listSpeeches"
\* the select without its where clause
listSpeeches_unfiltered(r, user) == TRUE

\* eq(Speeches.userId, user.id)
listSpeeches_where(r, user) == r.userId = user.id

listSpeeches_select(p) ==
  /\ pc[p] = "select" /\ op[p] = "listSpeeches"
  /\ LET Test(r) == listSpeeches_where(r, locals[p].user)
         speeches == SelectSeq(Speeches, Test)
     IN  Finish(p, Success([items |-> speeches, total |-> Len(speeches)]))
  /\ UNCHANGED <<Speeches, SpeechVersions, uuids>>

\* ---------------------------------------------------------------- createSpeechVersion
createSpeechVersion(p, family) ==
  /\ Enter(p, "createSpeechVersion", family)
  /\ op'[p] = "createSpeechVersion"

createSpeechVersion_insert(p) ==
  /\ pc[p] = "insert" /\ op[p] = "createSpeechVersion"
  /\ LET version == createSpeechVersion_values(input[p], randomUUID(uuids + 1), clock)
     IN  /\ SpeechVersions' = Append(SpeechVersions, version)
         /\ uuids' = uuids + 1
         /\ Finish(p, Success([version |-> version]))
  /\ UNCHANGED Speeches

\* ---------------------------------------------------------------- updateSpeechVersion
updateSpeechVersion(p, family) ==
  /\ Enter(p, "updateSpeechVersion", family)
  /\ op'[p] = "updateSpeechVersion"

updateSpeechVersion_set(i) ==
  Field(i, "versionLabel") @@ Field(i, "tone") @@ Field(i, "targetDurationMinutes")
    @@ Field(i, "scriptText") @@ Field(i, "isPreferred")

\* eq(SpeechVersions.id, input.id)
updateSpeechVersion_where(r, i) == r.id = i.id

updateSpeechVersion_update(p) ==
  /\ pc[p] = "update" /\ op[p] = "updateSpeechVersion"
  /\ LET set == updateSpeechVersion_set(input[p])
         Test(r) == updateSpeechVersion_where(r, input[p])
     IN  /\ SpeechVersions' = [k \in 1..Len(SpeechVersions) |->
                                 IF Test(SpeechVersions[k]) THEN set @@ SpeechVersions[k]
                                 ELSE SpeechVersions[k]]
         /\ Finish(p, Success(First("version", SelectSeq(SpeechVersions', Test))))
  /\ UNCHANGED <<Speeches, uuids>>

\* ---------------------------------------------------------------- deleteSpeechVersion
deleteSpeechVersion(p, family) ==
  /\ Enter(p, "deleteSpeechVersion", family)
  /\ op'[p] = "deleteSpeechVersion"
\* the delete filtered on the parent: eq(SpeechVersions.speechId, input.speechId)
deleteSpeechVersion_byParent(r, i) == r.speechId = i.speechId

\* eq(SpeechVersions.id, input.id)
deleteSpeechVersion_where(r, i) == r.id = i.id
\* a handler that does not look at result.rowsAffected
deleteSpeechVersion_unchecked(rowsAffected) == [success |-> TRUE]

\* what the handler returns or throws, given result.rowsAffected
deleteSpeechVersion_result(rowsAffected) ==
  IF rowsAffected = 0 THEN VersionNotFound ELSE [success |-> TRUE]

deleteSpeechVersion_delete(p) ==
  /\ pc[p] = "delete" /\ op[p] = "deleteSpeechVersion"
  /\ LET Test(r) == deleteSpeechVersion_where(r, input[p])
         Keep(r) == ~Test(r)
         rowsAffected == Len(SelectSeq(SpeechVersions, Test))
     IN  /\ SpeechVersions' = SelectSeq(SpeechVersions, Keep)
         /\ deleted' = IF rowsAffected > 0 THEN deleted \cup {input[p].id} ELSE deleted
         /\ Return(p, deleteSpeechVersion_result(rowsAffected))
  /\ UNCHANGED <<Speeches, uuids>>

\* ---------------------------------------------------------------- listSpeechVersions
listSpeechVersions(p, family) ==
  /\ Enter(p, "listSpeechVersions", family)
  /\ op'[p] = "listSpeechVersions"
\* the preferredOnly branch without eq(SpeechVersions.speechId, input.speechId)
listSpeechVersions_anySpeech(r, i) ==
  IF i.preferredOnly THEN r.isPreferred = TRUE ELSE r.speechId = i.speechId


listSpeechVersions_where(r, i) ==
  IF i.preferredOnly
  THEN r.speechId = i.speechId /\ r.isPreferred = TRUE
  ELSE r.speechId = i.speechId

\* the rows the handler's select returns
VersionRows(i) ==
  LET Test(r) == listSpeechVersions_where(r, i) IN SelectSeq(SpeechVersions, Test)

listSpeechVersions_select(p) ==
  /\ pc[p] = "select" /\ op[p] = "listSpeechVersions"
  /\ LET versions == VersionRows(input[p])
     IN  Finish(p, Success([items |-> versions, total |-> Len(versions)]))
  /\ UNCHANGED <<Speeches, SpeechVersions, uuids>>

\* ---------------------------------------------------------------- requests
\* the response has been delivered; the slot takes the next request
respond(p) ==
  /\ pc[p] = "done"
  /\ pc' = [pc EXCEPT ![p] = "idle"]
  /\ op' = [op EXCEPT ![p] = "none"]
  /\ locals' = [locals EXCEPT ![p] = Empty]
  /\ input' = [input EXCEPT ![p] = Empty]
  /\ result' = [result EXCEPT ![p] = Empty]
  /\ stmts' = [stmts EXCEPT ![p] = 0]
  /\ now' = [now EXCEPT ![p] = 0]
  /\ UNCHANGED <<Speeches, SpeechVersions, uuids, calls, clock, deleted>>

Step(p, family) ==
  \/ createSpeech(p, family) \/ createSpeech_insert(p)
  \/ updateSpeech(p, family) \/ updateSpeech_update(p)
  \/ listSpeeches(p, family) \/ listSpeeches_select(p)
  \/ createSpeechVersion(p, family) \/ createSpeechVersion_insert(p)
  \/ updateSpeechVersion(p, family) \/ updateSpeechVersion_update(p)
  \/ deleteSpeechVersion(p, family) \/ deleteSpeechVersion_delete(p)
  \/ listSpeechVersions(p, family) \/ listSpeechVersions_select(p)
  \/ getOwnedSpeech(p) \/ getOwnedSpeechVersion(p)
  \/ respond(p)

\* one request at a time, any input
Next == Step("p1", "any")
Spec == Init /\ [][Next]_vars

\* two requests in flight, inputs the schemas accept
NextConcurrent == \E p \in Procs : Step(p, "valid")
SpecConcurrent == Init /\ [][NextConcurrent]_vars

\* ---------------------------------------------------------------- vocabulary of the properties
\* context.locals l carries a signed-in user
SignedIn(l) == "user" \in DOMAIN l

Range(rows) == {rows[k] : k \in 1..Len(rows)}

\* the request in slot p takes this step
Acts(p) == pc'[p] # pc[p]
\* the request in slot p arrives with this step
Arrives(p) == pc[p] = "idle" /\ pc'[p] # "idle"
\* context.locals of the request that takes this step
ActingLocals(p) == IF pc[p] = "idle" THEN locals'[p] ELSE locals[p]

\* the operations that take an id or a speechId
IdOps == {"updateSpeech", "createSpeechVersion", "updateSpeechVersion",
          "deleteSpeechVersion", "listSpeechVersions"}

\* user u owns a speech with this id
Owns(u, speechId) == \E s \in Range(Speeches) : s.id = speechId /\ s.userId = u
\* the owners of the speech a version row hangs under
OwnersOf(version) == {s.userId : s \in {t \in Range(Speeches) : t.id = version.speechId}}
\* the rows a step inserts, modifies or deletes
Touched(before, after) == (Range(before) \ Range(after)) \cup (Range(after) \ Range(before))

\* ---------------------------------------------------------------- C1
C1_Arrival(p, accepted) ==
  ( /\ Arrives(p)
    /\ op'[p] \in IdOps
    /\ SignedIn(locals'[p])
    /\ accepted => Accepts(op'[p], input'[p])
    /\ ~Owns(locals'[p].user.id, GuardedSpeechId(op'[p], input'[p])) )
  => /\ tables' = tables
     /\ pc'[p] = "done" => Code(result'[p]) = "NOT_FOUND"
     /\ pc'[p] # "done" => pc'[p] = "getOwnedSpeech" /\ stmts'[p] = 0

C1_Guard(p) ==
  ( /\ pc[p] = "getOwnedSpeech"
    /\ Acts(p)
    /\ ~Owns(locals[p].user.id, GuardedSpeechId(op[p], input[p])) )
  => /\ tables' = tables
     /\ pc'[p] = "done"
     /\ result'[p] = SpeechNotFound

\* C1 as claimed: a call by an authenticated caller to an operation that takes an id or
\* a speechId, naming a speech that does not exist or belongs to somebody else, fails
\* with NotFound and changes no row of either table.
C1_AsClaimed == [][\A p \in Procs : C1_Arrival(p, FALSE) /\ C1_Guard(p)]_vars

\* C1 as amended: such a call, when its input passes the schema, runs the ownership
\* select as its first statement, and that statement ends the call with the one
\* "Speech not found." NotFound, whether the speech is absent or somebody else's; no
\* row of either table changes.
C1_NotFoundWhenNotOwned == [][\A p \in Procs : C1_Arrival(p, TRUE) /\ C1_Guard(p)]_vars

\* C1 witness: a call naming somebody else's existing speech has ended with NotFound.
C1_Witness ==
  \E p \in Procs :
    /\ pc[p] = "done" /\ op[p] \in IdOps /\ result[p] = SpeechNotFound
    /\ \E s \in Range(Speeches) :
         s.id = GuardedSpeechId(op[p], input[p]) /\ s.userId # locals[p].user.id

\* ---------------------------------------------------------------- C2
C2_Step(p) ==
  Acts(p) =>
    IF SignedIn(ActingLocals(p))
    THEN /\ \A s \in Touched(Speeches, Speeches') : s.userId = ActingLocals(p).user.id
         /\ \A v \in Touched(SpeechVersions, SpeechVersions') :
              OwnersOf(v) = {ActingLocals(p).user.id}
    ELSE tables' = tables

\* C2: under every interleaving, a step taken for caller u inserts, modifies or deletes
\* only Speech rows of u and only SpeechVersion rows whose parent speech is u's; a step
\* taken for no caller touches no row.
C2_NoCrossUserWrite == [][\A p \in Procs : C2_Step(p)]_vars

\* C2 witness: a caller named a version under somebody else's speech together with an
\* own speech, and the call has ended without that version being touched.
C2_Witness ==
  \E p \in Procs :
    /\ pc[p] = "done" /\ op[p] \in {"updateSpeechVersion", "deleteSpeechVersion"}
    /\ result[p] = VersionNotFound
    /\ Owns(locals[p].user.id, input[p].speechId)
    /\ \E v \in Range(SpeechVersions) :
         v.id = input[p].id /\ OwnersOf(v) # {locals[p].user.id}

\* ---------------------------------------------------------------- C3
\* C3: what listSpeeches returned to caller u is exactly the Speech rows of u, each once,
\* and total is their number.  (One request at a time: the store is the one selected from.)
C3_ListIsExactlyOwn ==
  \A p \in Procs :
    (pc[p] = "done" /\ op[p] = "listSpeeches" /\ SignedIn(locals[p])) =>
      LET own == {s \in Range(Speeches) : s.userId = locals[p].user.id}
      IN  /\ IsSuccess(result[p])
          /\ Range(result[p].data.items) = own
          /\ Len(result[p].data.items) = Cardinality(own)
          /\ result[p].data.total = Len(result[p].data.items)

\* C3 witness: a listing returned some but not all of the stored speeches.
C3_Witness ==
  \E p \in Procs :
    /\ pc[p] = "done" /\ op[p] = "listSpeeches" /\ IsSuccess(result[p])
    /\ result[p].data.total >= 1
    /\ result[p].data.total < Len(Speeches)

\* ---------------------------------------------------------------- C4
SpeechFields == {"title", "occasion", "audience", "language", "notes"}

\* row `after` is row `before` with the supplied fields of input i written
C4_Row(before, after, i) ==
  /\ \A f \in SpeechFields \cap DOMAIN i : f \in DOMAIN after /\ after[f] = i[f]
  /\ \A f \in SpeechFields \ DOMAIN i :
       /\ f \in DOMAIN after <=> f \in DOMAIN before
       /\ f \in DOMAIN before => after[f] = before[f]
  /\ after.id = before.id
  /\ after.userId = before.userId
  /\ after.createdAt = before.createdAt

C4_Step(p) ==
  (pc[p] = "update" /\ op[p] = "updateSpeech" /\ Acts(p)) =>
    /\ SpeechVersions' = SpeechVersions
    /\ Len(Speeches') = Len(Speeches)
    /\ \A k \in 1..Len(Speeches) :
         IF Speeches[k].id = input[p].id
         THEN C4_Row(Speeches[k], Speeches'[k], input[p])
         ELSE Speeches'[k] = Speeches[k]
    /\ IsSuccess(result'[p]) /\ "speech" \in DOMAIN result'[p].data
    /\ result'[p].data.speech \in Range(Speeches')
    /\ result'[p].data.speech.id = input[p].id

\* C4: the update statement of updateSpeech writes the supplied fields, keeps the fields
\* not supplied, keeps id, userId and createdAt, and changes no other row of either table.
C4_PartialUpdate == [][\A p \in Procs : C4_Step(p)]_vars

\* C4 witness: an update that supplied notes only has returned a row that still carries
\* the title and the occasion it was created with.
C4_Witness ==
  \E p \in Procs :
    /\ pc[p] = "done" /\ op[p] = "updateSpeech" /\ IsSuccess(result[p])
    /\ DOMAIN input[p] = {"id", "notes"}
    /\ "occasion" \in DOMAIN result[p].data.speech
    /\ result[p].data.speech.title = "a"
    /\ result[p].data.speech.notes = input[p].notes
    /\ result[p].data.speech.updatedAt > result[p].data.speech.createdAt

\* ---------------------------------------------------------------- C5
NoMutableField(o, i) ==
  \/ o = "updateSpeech" /\ DOMAIN i \subseteq {"id"}
  \/ o = "updateSpeechVersion" /\ DOMAIN i \subseteq {"id", "speechId"}

\* C5: updateSpeech and updateSpeechVersion called with no mutable field end with the
\* validation error, having executed no persistence statement.
C5_EmptyUpdateRejected ==
  \A p \in Procs :
    (pc[p] # "idle" /\ NoMutableField(op[p], input[p])) =>
      /\ pc[p] = "done"
      /\ result[p] = ActionInputError
      /\ stmts[p] = 0

\* C5 witness: the owner called updateSpeech with the id of an own speech and nothing
\* else, and the call was rejected.
C5_Witness ==
  \E p \in Procs :
    /\ pc[p] = "done" /\ op[p] = "updateSpeech" /\ DOMAIN input[p] = {"id"}
    /\ SignedIn(locals[p]) /\ Owns(locals[p].user.id, input[p].id)
    /\ result[p] = ActionInputError

\* ---------------------------------------------------------------- C6
\* C6 as claimed: every call made with no authenticated caller ends with Unauthorized,
\* having executed no persistence statement.
C6_AsClaimed ==
  \A p \in Procs :
    (pc[p] # "idle" /\ ~SignedIn(locals[p])) =>
      /\ pc[p] = "done"
      /\ result[p] = Unauthorized
      /\ stmts[p] = 0

\* C6 as amended: every call made with no authenticated caller ends having executed no
\* persistence statement; it ends with Unauthorized when its input passes the schema,
\* and with the validation error otherwise.
C6_UnauthorizedBeforePersistence ==
  \A p \in Procs :
    (pc[p] # "idle" /\ ~SignedIn(locals[p])) =>
      /\ pc[p] = "done"
      /\ stmts[p] = 0
      /\ result[p] = IF Accepts(op[p], input[p]) THEN Unauthorized ELSE ActionInputError

\* C6 witness: a delete naming an existing version under its own speech, made with no
\* caller, was turned away and the version is still there.
C6_Witness ==
  \E p \in Procs :
    /\ pc[p] = "done" /\ op[p] = "deleteSpeechVersion" /\ ~SignedIn(locals[p])
    /\ result[p] = Unauthorized
    /\ \E v \in Range(SpeechVersions) : v.id = input[p].id /\ v.speechId = input[p].speechId

\* ---------------------------------------------------------------- C7
\* the operation and the input of the request that takes this step
ActingOp(p) == IF pc[p] = "idle" THEN op'[p] ELSE op[p]
ActingInput(p) == IF pc[p] = "idle" THEN input'[p] ELSE input[p]

\* a step of a deleteSpeechVersion call naming a version a delete has already removed
C7_LaterStep(p) ==
  /\ Acts(p) /\ pc[p] # "done"
  /\ ActingOp(p) = "deleteSpeechVersion"
  /\ ActingInput(p).id \in deleted

\* C7 as claimed: once a delete of a version has succeeded, every later
\* deleteSpeechVersion call with that id fails with NotFound and removes nothing.
C7_AsClaimed ==
  [][\A p \in Procs :
       C7_LaterStep(p) =>
         /\ tables' = tables
         /\ pc'[p] = "done" => Code(result'[p]) = "NOT_FOUND"]_vars

\* C7 as amended: once a delete of a version has succeeded, no later deleteSpeechVersion
\* call with that id succeeds or removes a row; the call fails with NotFound when it
\* has an authenticated caller and an input the schema accepts, and with Unauthorized or
\* the validation error otherwise.
C7_DeleteNotIdempotent ==
  [][\A p \in Procs :
       C7_LaterStep(p) =>
         /\ tables' = tables
         /\ pc'[p] = "done" =>
              Code(result'[p]) =
                IF ~Accepts("deleteSpeechVersion", ActingInput(p)) THEN "BAD_REQUEST"
                ELSE IF ~SignedIn(ActingLocals(p)) THEN "UNAUTHORIZED"
                ELSE "NOT_FOUND"]_vars

\* C7 witness: the owner's delete of a version that an earlier delete removed has run
\* the guard and ended with NotFound.
C7_Witness ==
  \E p \in Procs :
    /\ pc[p] = "done" /\ op[p] = "deleteSpeechVersion"
    /\ input[p].id \in deleted
    /\ SignedIn(locals[p])
    /\ Owns(locals[p].user.id, input[p].speechId)
    /\ result[p] = VersionNotFound
    /\ stmts[p] = 2

\* ---------------------------------------------------------------- C8
\* `strict` asks for a proper inclusion.  (One request at a time: the store is the one
\* selected from.)
C8_Listed(p, strict) ==
  ( /\ pc[p] = "done" /\ op[p] = "listSpeechVersions" /\ IsSuccess(result[p])
    /\ input[p].preferredOnly )
  => LET preferred == Range(result[p].data.items)
         all == Range(VersionRows([speechId |-> input[p].speechId, preferredOnly |-> FALSE]))
     IN  /\ preferred \subseteq all
         /\ strict => preferred # all
         /\ \A v \in preferred : v.isPreferred = TRUE
         /\ \A v \in Range(SpeechVersions) :
              (v.speechId = input[p].speechId /\ v.isPreferred = TRUE) => v \in preferred
         /\ result[p].data.total = Cardinality(preferred)

\* C8 as claimed: what listSpeechVersions returned with preferredOnly = true is a strict
\* subset of what it returns with preferredOnly = false for the same speech in the same
\* store, and is exactly the versions of that speech with isPreferred = true.
C8_AsClaimed == \A p \in Procs : C8_Listed(p, TRUE)

\* C8 as amended: it is a subset, not always a strict one, of what preferredOnly = false
\* returns, and is exactly the versions of that speech with isPreferred = true.
C8_PreferredSubset == \A p \in Procs : C8_Listed(p, FALSE)

\* C8 witness: a preferredOnly listing returned every version of a speech, the speech
\* having more than one version, all preferred.
C8_Witness ==
  \E p \in Procs :
    /\ pc[p] = "done" /\ op[p] = "listSpeechVersions" /\ IsSuccess(result[p])
    /\ input[p].preferredOnly
    /\ result[p].data.total = 2
    /\ Len(SpeechVersions) > 2

\* ---------------------------------------------------------------- C9
\* C9 as claimed: an updateSpeechVersion call that returned success returned the version row, with
\* the supplied fields applied.
C9_AsClaimed ==
  \A p \in Procs :
    (pc[p] = "done" /\ op[p] = "updateSpeechVersion" /\ IsSuccess(result[p])) =>
      /\ "version" \in DOMAIN result[p].data
      /\ result[p].data.version.id = input[p].id
      /\ \A f \in DOMAIN input[p] \ {"id", "speechId"} :
           f \in DOMAIN result[p].data.version /\ result[p].data.version[f] = input[p][f]

\* ---------------------------------------------------------------- C10
\* both slots hold a finished deleteSpeechVersion of the same version, and each had
\* passed both guard selects when it executed its delete statement
C10_BothPassedGuard ==
  /\ \A p \in Procs : pc[p] = "done" /\ op[p] = "deleteSpeechVersion" /\ stmts[p] = 3
  /\ \A p, q \in Procs : input[p].id = input[q].id

C10_Outcome ==
  C10_BothPassedGuard =>
    \E p \in Procs :
      /\ result[p] = [success |-> TRUE]
      /\ \A q \in Procs \ {p} : result[q] = VersionNotFound

C10_DeleteStep(p) ==
  (pc[p] = "delete" /\ Acts(p)) =>
    LET hit == {v \in Range(SpeechVersions) : v.id = input[p].id}
    IN  /\ Speeches' = Speeches
        /\ Range(SpeechVersions') = Range(SpeechVersions) \ hit
        /\ Len(SpeechVersions') = Len(SpeechVersions) - Cardinality(hit)
        /\ Cardinality(hit) <= 1
        /\ result'[p] = IF hit = {} THEN VersionNotFound ELSE [success |-> TRUE]

\* C10: of two deleteSpeechVersion calls for the same version that both passed the guard
\* before either deleted, exactly one returns success and the other fails with NotFound;
\* a delete statement removes the named version, if it is still there, and no other row.
C10_OneDeleteWins == [](C10_Outcome) /\ [][\A p \in Procs : C10_DeleteStep(p)]_vars

\* C10 witness: both calls have ended, each after its delete statement.
C10_Witness ==
  /\ C10_BothPassedGuard
  /\ \A p \in Procs : input[p].id \in deleted /\ Owns(locals[p].user.id, input[p].speechId)
====
